---- MODULE Spec2Model ----
(***************************************************************************)
(* Registration over two stores: the PathChain ledger (files/pioneer,      *)
(* files/entities, files/secrets) and its relational projection (tables    *)
(* entity, secret, login), as driven by services/authService.js.           *)
(*                                                                         *)
(* One server process handles the requests. A request is a call: it runs   *)
(* from one await to the next, so each action below is one awaited         *)
(* database operation, or one synchronous block of ledger calls (the       *)
(* pathchain library is called synchronously, so such a block is atomic).  *)
(* The ledger library is available (pathchainUtil.isAvailable() is true).  *)
(***************************************************************************)
EXTENDS Naturals, Integers, Sequences, FiniteSets, TLC

\* ------------------------------------------------------------------ bounds

\* Number of requests (calls) the server handles in one behaviour.
NumCalls == 2

\* Database operations of the registration transaction that may fail
\* (connection lost, timeout) in one behaviour.
MaxFaults == 1

\* Runs of the reset script in one behaviour.
MaxResets == 1
MaxClock == 2

\* --------------------------------------------------------------- constants

\* authService.js: username.length > 255 is rejected.
MaxUsernameLength == 255

Calls == 1..NumCalls

\* NULL of a column, "" of a string, "no object" of a lookup.
Null == 0

\* Usernames of a request body: two ordinary names, the empty one and one too long.
LongUsername == "u256"
Usernames == {"u1", "u2"}
UsernameInputs == Usernames \cup {"", LongUsername}
UsernameLength(u) ==
    CASE u = "" -> 0
      [] u = LongUsername -> MaxUsernameLength + 1
      [] OTHER -> 2

\* Passwords of a request body ("" is the missing password); registrants
\* choose pw1, a login may also try another one.
Passwords == {"pw1"}
PasswordInputs == Passwords \cup {""}
LoginPasswords == Passwords \cup {"pw2"}

\* A digest no ledger record has.
UnknownHash == 0 - 1

\* ------------------------------------------------------------------- state

VARIABLES
    pioneer,     \* files/pioneer: digest of the pioneer entity, Null if none
    entities,    \* files/entities: digest -> [ancestor]
    secrets,     \* files/secrets:  digest -> [author, user, used]
    nextHash,    \* the next digest the ledger produces (every record carries a fresh moment)
    entityRows,  \* table entity: row id (auto increment) -> [path, ancestor_id]
    secretRows,  \* table secret: row id -> [path, owner_id, used_at]
    loginRows,   \* table login: set of [id, entity_id, password, secret], primary key id
    call,        \* the requests: call id -> locals of the handler and its result
    faults,      \* failures injected so far (a database statement, a useSecret)
    resets,      \* runs of scripts/reset.js so far
    tokens,      \* the tokens issued: payloads [entityId, iat]
    moments,     \* files/moments: digest -> decoded record
    clock,       \* the current datetime
    made,        \* the last createMoment: the record written, its address, was the file there
    available    \* pathchainUtil.isAvailable(): require('pathchain') did not throw

ledger == <<pioneer, entities, secrets, nextHash>>
projection == <<entityRows, secretRows, loginRows>>
store == <<moments, clock, made, available>>
vars == <<pioneer, entities, secrets, nextHash, entityRows, secretRows, loginRows, call, faults,
          resets, tokens, moments, clock, made, available>>

\* --------------------------------------------------------- utils/pathchain

\* normalizeSecretHash: strips the "secrets/" prefix, leaving the bare digest.
normalizeSecretHash(secretInput) ==
    IF ~secretInput.present THEN Null ELSE secretInput.hash

\* PathChain tags: "entities/{hash}" and "secrets/{hash}".
EntityTag(h) == <<"entities", h>>
SecretTag(h) == <<"secrets", h>>

\* The message makeEntity returns instead of a digest.
MsgSecretUsed == "Secret has been already used or it was not found"
MsgNotFound == "not found"

\* What a ledger call returns in place of a digest or an object: a message.
ErrorString(m) == [kind |-> "text", msg |-> m, hash |-> Null]
HashString(h) == [kind |-> "hex64", msg |-> "", hash |-> h]

\* Other strings a mint could hand back: a message of the library, the text
\* register makes of a thrown error, and strings that are neither.
MsgUpdater == "Updater not identified"
MsgUnavailable == "error: PathChain library not available"
MsgFailed == "failed"
MsgUsed64 == "used000000000000000000000000000000000000000000000000000000000000"
MsgNonHex64 == "zzzzzzzzzzzzzzzzzzzzzzzzzzzzzzzzzzzzzzzzzzzzzzzzzzzzzzzzzzzzzzzz"

\* Which of the words register looks for a message holds.
ErrorWordsIn(m) ==
    CASE m = MsgSecretUsed -> {"used", "already", "not found"}
      [] m = MsgNotFound -> {"not found"}
      [] m = MsgUpdater -> {"Updater", "not identified"}
      [] m = MsgUnavailable -> {"error"}
      [] m = MsgUsed64 -> {"used"}
      [] OTHER -> {}

\* String.prototype.includes on a returned string.
Includes(r, word) ==
    /\ r.kind = "text"
    /\ word \in ErrorWordsIn(r.msg)

\* A SHA-256 digest in hex.
HashLength == 64

\* Strings of hex digits of other lengths, a digest followed by a newline, a
\* blank followed by 63 hex digits; null, and a value that is no string.
Hex63 == [kind |-> "hex63", msg |-> "", hash |-> Null]
Hex65 == [kind |-> "hex65", msg |-> "", hash |-> Null]
HashNewline == [kind |-> "hexnl", msg |-> "", hash |-> Null]
BlankHex63 == [kind |-> "blankhex", msg |-> "", hash |-> Null]
NoString == [kind |-> "null", msg |-> "", hash |-> Null]
NonString == [kind |-> "object", msg |-> "", hash |-> Null]

MsgLength(m) ==
    CASE m = MsgSecretUsed -> 48
      [] m = MsgNotFound -> 9
      [] m = MsgUpdater -> 22
      [] m = MsgUnavailable -> 38
      [] m = MsgFailed -> 6
      [] m = MsgUsed64 -> HashLength
      [] m = MsgNonHex64 -> HashLength
      [] OTHER -> 0

\* entityHash.length
StringLength(r) ==
    CASE r.kind = "hex64" -> HashLength
      [] r.kind = "hex63" -> HashLength - 1
      [] r.kind = "hex65" -> HashLength + 1
      [] r.kind = "hexnl" -> HashLength + 1
      [] r.kind = "blankhex" -> HashLength
      [] r.kind = "text" -> MsgLength(r.msg)
      [] OTHER -> 0

\* entityHash.trim().length: of these strings only two have white space
\* at an end.
TrimmedLength(r) ==
    CASE r.kind = "hexnl" -> HashLength
      [] r.kind = "blankhex" -> HashLength - 1
      [] OTHER -> StringLength(r)

\* Every character of entityHash.trim() is one of [a-f0-9], in either case.
TrimmedIsHex(r) == r.kind \in {"hex64", "hex63", "hex65", "hexnl", "blankhex"}

\* /^[a-f0-9]{64}$/i.test(entityHash.trim())
isValidHash(r) == TrimmedIsHex(r) /\ TrimmedLength(r) = HashLength

\* isSecretUsed: the used flag, or a message for an unknown digest.
isSecretUsed(h) ==
    IF h \in DOMAIN secrets
    THEN [kind |-> "bool", value |-> secrets[h].used, msg |-> ""]
    ELSE [kind |-> "text", value |-> FALSE, msg |-> MsgNotFound]

\* getSecretObj / getObj("secrets/..."): the object, or a message when every
\* lookup fails.
getSecret(h) ==
    IF h \in DOMAIN secrets
    THEN [kind |-> "object", author |-> EntityTag(secrets[h].author),
          used |-> secrets[h].used, tag |-> SecretTag(h)]
    ELSE ErrorString(MsgNotFound)

\* getEntityObj / getPioneerObj / getObj("entities/..."): the object or a message.
getEntity(h) ==
    IF h \in DOMAIN entities
    THEN [kind |-> "object", tag |-> EntityTag(h), ancestor |-> EntityTag(entities[h].ancestor)]
    ELSE ErrorString(MsgNotFound)

\* makePioneer: returns the existing pioneer, or creates the self-ancestored
\* entity and, automatically, one secret authored by it.
MakePioneerHash == IF pioneer # Null THEN pioneer ELSE nextHash
MakePioneerEffect ==
    IF pioneer # Null
    THEN UNCHANGED ledger
    ELSE /\ pioneer' = nextHash
         /\ entities' = [h \in DOMAIN entities \cup {nextHash} |->
                            IF h = nextHash THEN [ancestor |-> nextHash] ELSE entities[h]]
         /\ secrets' = [h \in DOMAIN secrets \cup {nextHash + 1} |->
                            IF h = nextHash + 1
                            THEN [author |-> nextHash, user |-> Null, used |-> FALSE]
                            ELSE secrets[h]]
         /\ nextHash' = nextHash + 2

\* The first file of files/{pioneer}/secrets: the secret makePioneer created.
PioneerSecretHash(p) ==
    IF \E h \in DOMAIN secrets : secrets[h].author = p
    THEN CHOOSE h \in DOMAIN secrets :
            /\ secrets[h].author = p
            /\ \A g \in DOMAIN secrets : secrets[g].author = p => h <= g
    ELSE Null

\* makeEntity(xsecret): a message if the secret is unknown or used; otherwise
\* a new entity whose ancestor is the secret's author, and the secret is
\* marked used by that entity.
\* (a makeEntity that looks only for the secret's file, not at its used flag)
MakeEntityRefusesUnknown(h) == h \notin DOMAIN secrets

MakeEntityRefuses(h) == h \notin DOMAIN secrets \/ secrets[h].used

MakeEntityResult(h) ==
    IF MakeEntityRefuses(h) THEN ErrorString(MsgSecretUsed) ELSE HashString(nextHash)

\* (a makeEntity that records the user of the secret but not the use)
MakeEntityKeepsUnused(h) == [secrets EXCEPT ![h] = [@ EXCEPT !.user = nextHash]]

MakeEntityMarksUsed(h) == [secrets EXCEPT ![h] = [@ EXCEPT !.used = TRUE, !.user = nextHash]]

MakeEntityEffect(h) ==
    IF MakeEntityRefuses(h)
    THEN UNCHANGED ledger
    ELSE /\ entities' = [e \in DOMAIN entities \cup {nextHash} |->
                            IF e = nextHash THEN [ancestor |-> secrets[h].author] ELSE entities[e]]
         /\ secrets' = MakeEntityMarksUsed(h)
         /\ nextHash' = nextHash + 1
         /\ UNCHANGED pioneer

\* (a useSecret that writes the record again whether used or not, without a user)
UseSecretRewrites(h) ==
    IF h \in DOMAIN secrets
    THEN /\ secrets' = [secrets EXCEPT ![h] = [@ EXCEPT !.used = TRUE, !.user = Null]]
         /\ UNCHANGED <<pioneer, entities, nextHash>>
    ELSE UNCHANGED ledger

\* useSecret(xsecret): marks the secret used; an already used secret is
\* returned without modification.
UseSecretEffect(h) ==
    IF h \in DOMAIN secrets /\ ~secrets[h].used
    THEN /\ secrets' = [secrets EXCEPT ![h] = [@ EXCEPT !.used = TRUE]]
         /\ UNCHANGED <<pioneer, entities, nextHash>>
    ELSE UNCHANGED ledger

\* ------------------------------------------------------------ utils/crypto

\* hashPassword: SHA-256 of the password; verifyPassword compares digests.
hashPassword(password) == <<"sha256", password>>
verifyPassword(password, hash) == hashPassword(password) = hash

\* ------------------------------------------------------------------ models

\* Entity.findPioneer: the row with ancestor_id NULL of lowest id, or Null.
\* (a lookup of the root as the ledger stores it: its own ancestor)
FindPioneerSelfAncestor(i) == entityRows[i].ancestor_id = i

FindPioneerMatches(i) == entityRows[i].ancestor_id = Null

findPioneer ==
    IF \E i \in DOMAIN entityRows : FindPioneerMatches(i)
    THEN CHOOSE i \in DOMAIN entityRows :
            /\ FindPioneerMatches(i)
            /\ \A j \in DOMAIN entityRows : FindPioneerMatches(j) => i <= j
    ELSE Null

\* Entity.findOne({ where: { path } }): the first row with that path, or Null.
EntityFindByPath(path) ==
    IF \E i \in DOMAIN entityRows : entityRows[i].path = path
    THEN CHOOSE i \in DOMAIN entityRows :
            /\ entityRows[i].path = path
            /\ \A j \in DOMAIN entityRows : entityRows[j].path = path => i <= j
    ELSE Null

\* Secret.findByPath / Secret.findOne({ where: { path } }).
SecretFindByPath(path) ==
    IF \E i \in DOMAIN secretRows : secretRows[i].path = path
    THEN CHOOSE i \in DOMAIN secretRows :
            /\ secretRows[i].path = path
            /\ \A j \in DOMAIN secretRows : secretRows[j].path = path => i <= j
    ELSE Null

\* Column secret.used_at is TIMESTAMP NOT NULL DEFAULT current_timestamp():
\* a NULL written to it is stored as the current timestamp. TRUE = a timestamp.
UsedAtColumn(value) == TRUE

\* Secret.findUnusedByOwner(ownerId): the rows of that owner whose used_at
\* is NULL.
findUnusedByOwner(ownerId) ==
    {i \in DOMAIN secretRows : secretRows[i].owner_id = ownerId /\ ~secretRows[i].used_at}

\* Login.usernameExists: count of rows with that id > 0.
usernameExists(username) == \E l \in loginRows : l.id = username

\* Login.findByUsername (findByPk): the rows with that primary key (none or one).
LoginFindByPk(username) == {l \in loginRows : l.id = username}

\* Login.create: table login has PRIMARY KEY (id); a duplicate id is an error.
LoginCreateFails(username) == usernameExists(username)


\* ------------------------------------------------------------ the requests

\* The secret of a request body: absent, or a digest with or without the
\* "secrets/" prefix; hash = Null with the prefix is the input "secrets/".
\* A caller presents the digest of a secret of the ledger or an unknown one.
SecretInputs ==
    {[present |-> FALSE, prefix |-> FALSE, hash |-> Null]}
    \cup [present : {TRUE}, prefix : BOOLEAN, hash : DOMAIN secrets \cup {UnknownHash}]
    \cup {[present |-> TRUE, prefix |-> TRUE, hash |-> Null]}

Idle ==
    [op |-> "idle", pc |-> "idle", user |-> "", pw |-> "", noSecret |-> FALSE,
     sec |-> Null, author |-> Null, anc |-> Null, hash |-> Null, ent |-> Null,
     psec |-> Null, srow |-> Null, isNew |-> FALSE, result |-> "", resEntity |-> Null,
     mint |-> NoString, mintOk |-> FALSE]

\* Nothing stored yet: no files, empty tables.
Fresh ==
    /\ pioneer = Null
    /\ entities = <<>>
    /\ secrets = <<>>
    /\ nextHash = 1
    /\ entityRows = <<>>
    /\ secretRows = <<>>
    /\ loginRows = {}

\* What the start-up's initializeSystem leaves when it ran alone on the fresh
\* stores: the pioneer, its automatic secret, and their two rows.
Bootstrapped ==
    /\ pioneer = 1
    /\ entities = (1 :> [ancestor |-> 1])
    /\ secrets = (2 :> [author |-> 1, user |-> Null, used |-> FALSE])
    /\ nextHash = 3
    /\ entityRows = <<[path |-> EntityTag(1), ancestor_id |-> Null]>>
    /\ secretRows = <<[path |-> SecretTag(2), owner_id |-> 1, used_at |-> UsedAtColumn(FALSE)]>>
    /\ loginRows = {}

\* The server starts listening while startDatabase is still running, and
\* startDatabase swallows its errors: requests meet the stores fresh, or as
\* the start-up's initializeSystem left them.
Init ==
    /\ Fresh \/ Bootstrapped
    /\ call = [c \in Calls |-> Idle]
    /\ faults = 0
    /\ resets = 0
    /\ tokens = {}
    /\ moments = <<>>
    /\ clock = 1
    /\ made = [record |-> Null, address |-> Null, existed |-> FALSE]
    /\ available = TRUE

\* The server was started where the pathchain library cannot be loaded, on
\* tables that are empty or were filled by an earlier start-up with it.
InitNoLedger ==
    /\ Fresh \/ Bootstrapped
    /\ call = [c \in Calls |-> Idle]
    /\ faults = 0
    /\ resets = 0
    /\ tokens = {}
    /\ moments = <<>>
    /\ clock = 1
    /\ made = [record |-> Null, address |-> Null, existed |-> FALSE]
    /\ available = FALSE

\* Requests are numbered in the order they arrive.
CanStart(c) ==
    /\ call[c].op = "idle"
    /\ \A d \in Calls : d < c => call[d].op # "idle"

Return(c, code) == [call[c] EXCEPT !.pc = "done", !.result = code]
Goto(c, label) == [call[c] EXCEPT !.pc = label]
At(c, op, label) == call[c].op = op /\ call[c].pc = label

\* generateToken({ entityId: entity.id, username, path: entity.path }) of a
\* register or login that answers with success. Of the payload only entityId
\* is read again (by verifyToken); iat, the time of issue, is kept as the
\* number of resets before it.
GenerateToken(rec) == [entityId |-> rec.resEntity, iat |-> resets]

IssueToken(c) ==
    tokens' = IF /\ call'[c].op \in {"register", "login"}
                 /\ call'[c].pc = "done"
                 /\ call'[c].result = "SUCCESS"
              THEN tokens \cup {GenerateToken(call'[c])}
              ELSE tokens

\* -------------------------------------------- authService.initializeSystem

\* What initializeSystem hands back: to POST /init and the start-up it is the
\* result; register goes on (isNew) or refuses (pioneer already there).
InitReturn(c, rec) ==
    IF rec.op = "init"
    THEN [rec EXCEPT !.pc = "done", !.result = "OK", !.resEntity = rec.ent]
    ELSE IF rec.isNew
         THEN IF rec.srow # Null
              THEN [rec EXCEPT !.pc = "markAsUsed"]
              ELSE [rec EXCEPT !.pc = "done", !.result = "SUCCESS", !.resEntity = rec.ent]
         ELSE [rec EXCEPT !.pc = "done", !.result = "INVALID_SECRET"]

\* app.js startDatabase and POST /api/identity/init call initializeSystem.
StartInit(c) ==
    /\ CanStart(c)
    /\ call' = [call EXCEPT ![c] = [Idle EXCEPT !.op = "init", !.pc = "initFindPioneer"]]
    /\ UNCHANGED <<ledger, projection, faults, resets, tokens, store>>

\* let pioneer = await Entity.findPioneer(); if (pioneer) return { isNew: false }
InitFoundPioneer(c, p) == InitReturn(c, [call[c] EXCEPT !.ent = p, !.isNew = FALSE])

InitFindPioneer(c) ==
    /\ call[c].op \in {"init", "register"}
    /\ call[c].pc = "initFindPioneer"
    /\ call' = [call EXCEPT ![c] =
                  IF findPioneer # Null
                  THEN InitFoundPioneer(c, findPioneer)
                  ELSE Goto(c, "createPioneer")]
    /\ UNCHANGED <<ledger, projection, faults, resets, tokens, store>>

\* createPioneer throws without the library; initializeSystem rethrows:
\* POST /init answers 500 with code 50001, register DATABASE_ERROR.
InitThrows(c) ==
    Return(c, IF call[c].op = "init" THEN "PIONEER_CREATION_FAILED" ELSE "DATABASE_ERROR")

\* pathchainUtil.createPioneer(); pathchainUtil.getPioneer(pioneerHash)
InitCreatePioneer(c) ==
    /\ call[c].op \in {"init", "register"}
    /\ call[c].pc = "createPioneer"
    /\ IF available
       THEN /\ MakePioneerEffect
            /\ call' = [call EXCEPT ![c] = [call[c] EXCEPT !.pc = "initCreateEntity",
                                                          !.hash = MakePioneerHash]]
       ELSE /\ UNCHANGED ledger
            /\ call' = [call EXCEPT ![c] = InitThrows(c)]
    /\ UNCHANGED <<projection, faults, resets, tokens, store>>

\* pioneer = await Entity.create({ path: pioneerObj.tag, ancestor_id: null });
\* then the secret's digest is read from files/{pioneer}/secrets (or, if
\* there is none, the pioneer's digest is taken).
InitCreateEntity(c) ==
    /\ call[c].op \in {"init", "register"}
    /\ call[c].pc = "initCreateEntity"
    /\ entityRows' = Append(entityRows, [path |-> EntityTag(call[c].hash), ancestor_id |-> Null])
    /\ call' = [call EXCEPT ![c] =
                  [call[c] EXCEPT !.pc = "initFindSecret",
                                  !.ent = Len(entityRows) + 1,
                                  !.psec = IF PioneerSecretHash(call[c].hash) # Null
                                           THEN PioneerSecretHash(call[c].hash)
                                           ELSE call[c].hash]]
    /\ UNCHANGED <<ledger, secretRows, loginRows, faults, resets, tokens, store>>

\* secret = await Secret.findByPath(secretPath)
InitFindSecret(c) ==
    /\ call[c].op \in {"init", "register"}
    /\ call[c].pc = "initFindSecret"
    /\ call' = [call EXCEPT ![c] =
                  IF SecretFindByPath(SecretTag(call[c].psec)) # Null
                  THEN InitReturn(c, [call[c] EXCEPT
                            !.srow = SecretFindByPath(SecretTag(call[c].psec)), !.isNew = TRUE])
                  ELSE Goto(c, "initCreateSecret")]
    /\ IssueToken(c)
    /\ UNCHANGED <<ledger, projection, faults, resets, store>>

\* secret = await Secret.create({ path, owner_id: pioneer.id, used_at: null })
InitCreateSecret(c) ==
    /\ call[c].op \in {"init", "register"}
    /\ call[c].pc = "initCreateSecret"
    /\ secretRows' = Append(secretRows, [path |-> SecretTag(call[c].psec),
                                         owner_id |-> call[c].ent,
                                         used_at |-> UsedAtColumn(FALSE)])
    /\ call' = [call EXCEPT ![c] =
                  InitReturn(c, [call[c] EXCEPT !.srow = Len(secretRows) + 1, !.isNew = TRUE])]
    /\ IssueToken(c)
    /\ UNCHANGED <<ledger, entityRows, loginRows, faults, resets, store>>


\* ---------------------------------------------------- authService.register

\* if (!username || username.length > 255) ...; if (!password) ...
InvalidRequest(username, password) ==
    \/ UsernameLength(username) = 0
    \/ UsernameLength(username) > MaxUsernameLength
    \/ password = ""

\* POST /api/identity/register: the input is validated before the first await.
StartRegister(c) ==
    /\ CanStart(c)
    /\ \E secretInput \in SecretInputs, username \in UsernameInputs, password \in PasswordInputs :
          call' = [call EXCEPT ![c] =
                     IF InvalidRequest(username, password)
                     THEN [Idle EXCEPT !.op = "register", !.pc = "done",
                                       !.result = "INVALID_REQUEST"]
                     ELSE [Idle EXCEPT !.op = "register", !.pc = "usernameExists",
                                       !.user = username, !.pw = password,
                                       !.noSecret = ~secretInput.present,
                                       !.sec = normalizeSecretHash(secretInput)]]
    /\ UNCHANGED <<ledger, projection, faults, resets, tokens, store>>

\* if (await Login.usernameExists(username)) return USERNAME_EXISTS;
\* then the branch on the secret: none, or one that normalizes to "".
RegUsernameExists(c) ==
    /\ At(c, "register", "usernameExists")
    /\ call' = [call EXCEPT ![c] =
                  IF usernameExists(call[c].user) THEN Return(c, "USERNAME_EXISTS")
                  ELSE IF call[c].noSecret THEN Goto(c, "findPioneer")
                  ELSE IF call[c].sec = Null THEN Return(c, "INVALID_SECRET")
                  ELSE Goto(c, "checkSecret")]
    /\ UNCHANGED <<ledger, projection, faults, resets, tokens, store>>

\* No secret: const pioneer = await Entity.findPioneer(); if (pioneer) return INVALID_SECRET
RegPioneerExists == findPioneer # Null

RegFindPioneer(c) ==
    /\ At(c, "register", "findPioneer")
    /\ call' = [call EXCEPT ![c] =
                  IF RegPioneerExists THEN Return(c, "INVALID_SECRET")
                  ELSE Goto(c, "initFindPioneer")]
    /\ UNCHANGED <<ledger, projection, faults, resets, tokens, store>>

\* if (pioneerSecret) await pioneerSecret.markAsUsed(); the registrant gets
\* the pioneer as entity; no login row is written on this branch.
RegMarkAsUsed(c) ==
    /\ At(c, "register", "markAsUsed")
    /\ secretRows' = [secretRows EXCEPT ![call[c].srow] = [@ EXCEPT !.used_at = TRUE]]
    /\ call' = [call EXCEPT ![c] = [call[c] EXCEPT !.pc = "done", !.result = "SUCCESS",
                                                  !.resEntity = call[c].ent]]
    /\ IssueToken(c)
    /\ UNCHANGED <<ledger, entityRows, loginRows, faults, resets, store>>

\* (a comparison of the answer with the string "true")
SecretIsUsedText(h) == isSecretUsed(h).kind = "text" /\ isSecretUsed(h).msg = "true"

\* isUsed === true (a returned message is not true)
SecretIsUsed(h) == isSecretUsed(h).kind = "bool" /\ isSecretUsed(h).value

\* (a test of !secretObj alone, which a returned message passes)
SecretObjNull(h) == getSecret(h).kind = "null"

\* if (!secretObj || typeof secretObj === 'string') return INVALID_SECRET
SecretObjMissing(h) == getSecret(h).kind = "text"

\* secretObj.author (a message has no author).
SecretAuthor(h) == IF h \in DOMAIN secrets THEN secrets[h].author ELSE Null

\* if (pathchainUtil.isAvailable()): isSecretUsed, then getSecret (three
\* lookups of the same file), then the ancestor is looked up by
\* secretObj.author; else the branch without the ledger.
RegCheckSecret(c) ==
    /\ At(c, "register", "checkSecret")
    /\ call' = [call EXCEPT ![c] =
                  IF ~available THEN Goto(c, "fbFindPioneer")
                  ELSE IF SecretIsUsed(call[c].sec) THEN Return(c, "USED_SECRET")
                  ELSE IF SecretObjMissing(call[c].sec) THEN Return(c, "INVALID_SECRET")
                  ELSE [call[c] EXCEPT !.pc = "findAncestor",
                                       !.author = SecretAuthor(call[c].sec)]]
    /\ UNCHANGED <<ledger, projection, faults, resets, tokens, store>>

\* (a lookup that inserts the row it does not find)
RegFindOrCreateAncestor(c) ==
    /\ At(c, "register", "findAncestor")
    /\ entityRows' = IF EntityFindByPath(EntityTag(call[c].author)) = Null
                     THEN Append(entityRows, [path |-> EntityTag(call[c].author),
                                              ancestor_id |-> Null])
                     ELSE entityRows
    /\ call' = [call EXCEPT ![c] =
                  [call[c] EXCEPT !.pc = "createEntity",
                                  !.anc = IF EntityFindByPath(EntityTag(call[c].author)) = Null
                                          THEN Len(entityRows) + 1
                                          ELSE EntityFindByPath(EntityTag(call[c].author))]]
    /\ UNCHANGED <<ledger, secretRows, loginRows, faults, resets, tokens, store>>

\* ancestorEntity = await Entity.findOne({ where: { path: secretObj.author } })
RegFindAncestor(c) ==
    /\ At(c, "register", "findAncestor")
    /\ call' = [call EXCEPT ![c] =
                  IF EntityFindByPath(EntityTag(call[c].author)) = Null
                  THEN Return(c, "ANCESTOR_NOT_FOUND")
                  ELSE [call[c] EXCEPT !.pc = "createEntity",
                                       !.anc = EntityFindByPath(EntityTag(call[c].author))]]
    /\ UNCHANGED <<ledger, projection, faults, resets, tokens, store>>

\* (a check that looks for the error words only)
IsErrorMessageWordsOnly(r) ==
    \E w \in {"error", "used", "already", "not found", "not identified", "Updater"} :
        Includes(r, w)

\* isErrorMessage: the returned string holds one of the error words, or is
\* not 64 characters long, or is not 64 hex digits once trimmed.
IsErrorMessage(r) ==
    \/ \E w \in {"error", "used", "already", "not found", "not identified", "Updater"} :
          Includes(r, w)
    \/ StringLength(r) # HashLength
    \/ ~isValidHash(r)

\* The code a refused mint is mapped to. The mint left the ledger unchanged,
\* so the second isSecretUsed reads the state the mint read.
MintErrorCode(r, h) ==
    IF (Includes(r, "used") \/ Includes(r, "already")) /\ SecretIsUsed(h)
    THEN "USED_SECRET"
    ELSE IF Includes(r, "Updater") \/ Includes(r, "not identified") \/ Includes(r, "not found")
         THEN "INVALID_SECRET"
         ELSE "ENTITY_RETRIEVAL_FAILED"

\* What register makes of the value createEntity handed back: nothing
\* returned, a value without trim() (the TypeError reaches the outer catch),
\* an error message, a digest whose entity cannot be read back, or a digest
\* to go on with.
MintCheck(c, r, stored) ==
    IF r.kind = "null" \/ (r.kind = "text" /\ StringLength(r) = 0)
    THEN [Return(c, "ENTITY_RETRIEVAL_FAILED") EXCEPT !.mint = r]
    ELSE IF r.kind = "object"
    THEN [Return(c, "DATABASE_ERROR") EXCEPT !.mint = r]
    ELSE IF IsErrorMessage(r)
    THEN [Return(c, MintErrorCode(r, call[c].sec)) EXCEPT !.mint = r]
    ELSE IF r.hash \notin stored
    THEN [Return(c, "ENTITY_RETRIEVAL_FAILED") EXCEPT !.mint = r, !.mintOk = TRUE]
    ELSE [call[c] EXCEPT !.pc = "txEntityCreate", !.hash = r.hash,
                         !.mint = r, !.mintOk = TRUE]

\* entityHash = pathchainUtil.createEntity(normalizedSecretHash); the result
\* is checked and the new entity read back.
RegCreateEntity(c) ==
    /\ At(c, "register", "createEntity")
    /\ MakeEntityEffect(call[c].sec)
    /\ call' = [call EXCEPT ![c] =
                  MintCheck(c, MakeEntityResult(call[c].sec), DOMAIN entities')]
    /\ UNCHANGED <<projection, faults, resets, tokens, store>>

\* The tables are ENGINE=MyISAM: every statement is durable at once and
\* transaction.rollback() takes nothing back.
TransactionRollback == UNCHANGED projection

TxLabels == {"txEntityCreate", "txSecretFind", "txSecretUpsert", "txLoginCreate", "txCommit"}

\* (a rollback after which the secret is still marked in the ledger)
RegTxFailsThenUseSecret(c) ==
    /\ call[c].op = "register"
    /\ call[c].pc \in TxLabels
    /\ faults < MaxFaults
    /\ faults' = faults + 1
    /\ TransactionRollback
    /\ call' = [call EXCEPT ![c] = Goto(c, "useSecret")]
    /\ UNCHANGED <<ledger, resets, tokens, store>>

\* A statement of the transaction (or its commit) fails: catch (dbError)
\* { await transaction.rollback(); throw dbError } -> DATABASE_ERROR.
RegTxFails(c) ==
    /\ call[c].op = "register"
    /\ call[c].pc \in TxLabels
    /\ faults < MaxFaults
    /\ faults' = faults + 1
    /\ UNCHANGED <<resets, tokens, store>>
    /\ TransactionRollback
    /\ call' = [call EXCEPT ![c] = Return(c, "DATABASE_ERROR")]
    /\ UNCHANGED ledger

\* entity = await Entity.create({ path: entityObj.tag, ancestor_id: ancestorEntity.id }, { transaction })
RegTxEntityCreate(c) ==
    /\ At(c, "register", "txEntityCreate")
    /\ entityRows' = Append(entityRows, [path |-> getEntity(call[c].hash).tag,
                                         ancestor_id |-> call[c].anc])
    /\ call' = [call EXCEPT ![c] = [call[c] EXCEPT !.pc = "txSecretFind",
                                                  !.ent = Len(entityRows) + 1]]
    /\ UNCHANGED <<ledger, secretRows, loginRows, faults, resets, tokens, store>>

\* let dbSecret = await Secret.findOne({ where: { path: secretPath }, transaction })
RegTxSecretFind(c) ==
    /\ At(c, "register", "txSecretFind")
    /\ call' = [call EXCEPT ![c] = [call[c] EXCEPT !.pc = "txSecretUpsert",
                                      !.srow = SecretFindByPath(SecretTag(call[c].sec))]]
    /\ UNCHANGED <<ledger, projection, faults, resets, tokens, store>>

\* dbSecret.used_at = new Date(); save   or   Secret.create({ ..., used_at: new Date() })
RegTxSecretUpsert(c) ==
    /\ At(c, "register", "txSecretUpsert")
    /\ secretRows' =
          IF call[c].srow # Null
          THEN [secretRows EXCEPT ![call[c].srow] = [@ EXCEPT !.used_at = TRUE]]
          ELSE Append(secretRows, [path |-> SecretTag(call[c].sec),
                                   owner_id |-> call[c].anc,
                                   used_at |-> UsedAtColumn(TRUE)])
    /\ call' = [call EXCEPT ![c] =
                  [call[c] EXCEPT !.pc = "txLoginCreate",
                                  !.srow = IF call[c].srow # Null THEN call[c].srow
                                           ELSE Len(secretRows) + 1]]
    /\ UNCHANGED <<ledger, entityRows, loginRows, faults, resets, tokens, store>>

\* (a Login.create that stores the digest of the entity for its row id)
RegTxLoginCreateByDigest(c) ==
    /\ At(c, "register", "txLoginCreate")
    /\ IF LoginCreateFails(call[c].user)
       THEN /\ TransactionRollback
            /\ call' = [call EXCEPT ![c] = Return(c, "DATABASE_ERROR")]
       ELSE /\ loginRows' = loginRows \cup {[id |-> call[c].user,
                                             entity_id |-> call[c].hash,
                                             password |-> hashPassword(call[c].pw),
                                             secret |-> call[c].sec]}
            /\ call' = [call EXCEPT ![c] = Goto(c, "txCommit")]
            /\ UNCHANGED <<entityRows, secretRows>>
    /\ UNCHANGED <<ledger, faults, resets, tokens, store>>

\* await Login.create({ id: username, entity_id: entity.id, password: hashedPassword,
\*                      secret: normalizedSecretHash }, { transaction })
RegTxLoginCreate(c) ==
    /\ At(c, "register", "txLoginCreate")
    /\ IF LoginCreateFails(call[c].user)
       THEN /\ TransactionRollback
            /\ call' = [call EXCEPT ![c] = Return(c, "DATABASE_ERROR")]
       ELSE /\ loginRows' = loginRows \cup {[id |-> call[c].user,
                                             entity_id |-> call[c].ent,
                                             password |-> hashPassword(call[c].pw),
                                             secret |-> call[c].sec]}
            /\ call' = [call EXCEPT ![c] = Goto(c, "txCommit")]
            /\ UNCHANGED <<entityRows, secretRows>>
    /\ UNCHANGED <<ledger, faults, resets, tokens, store>>

\* await transaction.commit()
RegTxCommit(c) ==
    /\ At(c, "register", "txCommit")
    /\ call' = [call EXCEPT ![c] = Goto(c, "useSecret")]
    /\ UNCHANGED <<ledger, projection, faults, resets, tokens, store>>

\* (a useSecret whose error reaches catch (dbError): rollback, DATABASE_ERROR)
UseSecretRethrown(c) == Return(c, "DATABASE_ERROR")

\* try { useSecret } catch (err) { console.warn }: registration goes on.
UseSecretCaught(c) ==
    [call[c] EXCEPT !.pc = "done", !.result = "SUCCESS", !.resEntity = call[c].ent]

\* pathchainUtil.useSecret(normalizedSecretHash), which returns or throws
\* (a file it cannot read or write); then the token is issued.
RegUseSecret(c) ==
    /\ At(c, "register", "useSecret")
    /\ \/ /\ UseSecretEffect(call[c].sec)
          /\ call' = [call EXCEPT ![c] =
                        [call[c] EXCEPT !.pc = "done", !.result = "SUCCESS",
                                        !.resEntity = call[c].ent]]
          /\ UNCHANGED faults
       \/ /\ faults < MaxFaults
          /\ faults' = faults + 1
          /\ UNCHANGED ledger
          /\ call' = [call EXCEPT ![c] = UseSecretCaught(c)]
    /\ IssueToken(c)
    /\ UNCHANGED <<projection, resets, store>>

\* ------------------------------- authService.register without the ledger

\* ancestorEntity = await Entity.findPioneer(): any secret is taken, and the
\* pioneer stands in as the ancestor.
RegFbFindPioneer(c) ==
    /\ At(c, "register", "fbFindPioneer")
    /\ call' = [call EXCEPT ![c] =
                  IF findPioneer # Null
                  THEN [call[c] EXCEPT !.pc = "fbTxEntityCreate", !.anc = findPioneer]
                  ELSE Goto(c, "fbInit")]
    /\ UNCHANGED <<ledger, projection, faults, resets, tokens, store>>

\* const { pioneer } = await initializeSystem(): its findPioneer, and, when
\* that finds none, createPioneer, which throws (no await between the two).
RegFbInit(c) ==
    /\ At(c, "register", "fbInit")
    /\ call' = [call EXCEPT ![c] =
                  IF findPioneer # Null
                  THEN [call[c] EXCEPT !.pc = "fbTxEntityCreate", !.anc = findPioneer]
                  ELSE InitThrows(c)]
    /\ UNCHANGED <<ledger, projection, faults, resets, tokens, store>>

FbTxLabels == {"fbTxEntityCreate", "fbTxSecretCreate", "fbTxLoginCreate", "fbTxCommit"}

\* A statement of this transaction (or its commit) fails: rollback, throw.
RegFbTxFails(c) ==
    /\ call[c].op = "register"
    /\ call[c].pc \in FbTxLabels
    /\ faults < MaxFaults
    /\ faults' = faults + 1
    /\ TransactionRollback
    /\ call' = [call EXCEPT ![c] = Return(c, "DATABASE_ERROR")]
    /\ UNCHANGED <<ledger, resets, tokens, store>>

\* entity = await Entity.create({ path: `entities/${normalizedSecretHash}`,
\*                                ancestor_id: ancestorEntity.id }, { transaction })
RegFbTxEntityCreate(c) ==
    /\ At(c, "register", "fbTxEntityCreate")
    /\ entityRows' = Append(entityRows, [path |-> EntityTag(call[c].sec),
                                         ancestor_id |-> call[c].anc])
    /\ call' = [call EXCEPT ![c] = [call[c] EXCEPT !.pc = "fbTxSecretCreate",
                                                  !.ent = Len(entityRows) + 1]]
    /\ UNCHANGED <<ledger, secretRows, loginRows, faults, resets, tokens, store>>

\* await Secret.create({ path: secretPath, owner_id: ancestorEntity.id,
\*                       used_at: new Date() }, { transaction })
RegFbTxSecretCreate(c) ==
    /\ At(c, "register", "fbTxSecretCreate")
    /\ secretRows' = Append(secretRows, [path |-> SecretTag(call[c].sec),
                                         owner_id |-> call[c].anc,
                                         used_at |-> UsedAtColumn(TRUE)])
    /\ call' = [call EXCEPT ![c] = [call[c] EXCEPT !.pc = "fbTxLoginCreate",
                                                  !.srow = Len(secretRows) + 1]]
    /\ UNCHANGED <<ledger, entityRows, loginRows, faults, resets, tokens, store>>

\* await Login.create({ id: username, entity_id: entity.id, ... }, { transaction })
RegFbTxLoginCreate(c) ==
    /\ At(c, "register", "fbTxLoginCreate")
    /\ IF LoginCreateFails(call[c].user)
       THEN /\ TransactionRollback
            /\ call' = [call EXCEPT ![c] = Return(c, "DATABASE_ERROR")]
       ELSE /\ loginRows' = loginRows \cup {[id |-> call[c].user,
                                             entity_id |-> call[c].ent,
                                             password |-> hashPassword(call[c].pw),
                                             secret |-> call[c].sec]}
            /\ call' = [call EXCEPT ![c] = Goto(c, "fbTxCommit")]
            /\ UNCHANGED <<entityRows, secretRows>>
    /\ UNCHANGED <<ledger, faults, resets, tokens, store>>

\* await transaction.commit(); then the token is issued.
RegFbTxCommit(c) ==
    /\ At(c, "register", "fbTxCommit")
    /\ call' = [call EXCEPT ![c] = [call[c] EXCEPT !.pc = "done", !.result = "SUCCESS",
                                                  !.resEntity = call[c].ent]]
    /\ IssueToken(c)
    /\ UNCHANGED <<ledger, projection, faults, resets, store>>

\* ------------------------------------------------------- authService.login

\* login({ username, password }): the code and the entity row it answers with.
\* The rows it reads are never changed or deleted, so its two reads see one state.
LoginOutcome(username, password) ==
    IF username = "" \/ password = "" THEN [code |-> "INVALID_REQUEST", entity |-> Null]
    ELSE IF LoginFindByPk(username) = {} THEN [code |-> "INVALID_CREDENTIALS", entity |-> Null]
    ELSE LET loginRecord == CHOOSE l \in LoginFindByPk(username) : TRUE
         IN  IF ~verifyPassword(password, loginRecord.password)
             THEN [code |-> "INVALID_CREDENTIALS", entity |-> Null]
             ELSE IF loginRecord.entity_id \notin DOMAIN entityRows
                  THEN [code |-> "DATABASE_ERROR", entity |-> Null]
                  ELSE [code |-> "SUCCESS", entity |-> loginRecord.entity_id]

\* POST /api/identity/login
Login(c) ==
    /\ CanStart(c)
    /\ \E username \in Usernames \cup {""}, password \in LoginPasswords :
          call' = [call EXCEPT ![c] =
                     [Idle EXCEPT !.op = "login", !.pc = "done",
                                  !.user = username, !.pw = password,
                                  !.result = LoginOutcome(username, password).code,
                                  !.resEntity = LoginOutcome(username, password).entity]]
    /\ IssueToken(c)
    /\ UNCHANGED <<ledger, projection, faults, resets, store>>

\* --------------------------------------------- authService.getAncestorInfo

\* (a lookup that counts the rows from 0)
EntityFindByPkFromZero(id) == IF id - 1 \in DOMAIN entityRows THEN id - 1 ELSE Null

\* Entity.findByPk(id): the row with that id, or Null.
EntityFindByPk(id) == IF id \in DOMAIN entityRows THEN id ELSE Null

\* extractHash(path): the part after the last "/".
extractHash(path) == path[2]

\* fetchEntityInfo(entityId): the entity row and its login row, if any.
FetchEntityInfo(entityId) ==
    IF entityId = Null THEN [code |-> "INVALID_REQUEST", entity |-> Null]
    ELSE IF EntityFindByPk(entityId) = Null THEN [code |-> "DATABASE_ERROR", entity |-> Null]
    ELSE [code |-> "SUCCESS", entity |-> EntityFindByPk(entityId)]

\* (a resolver that stops at a missing ancestor_id link)
AncestorRowByIdOnly(entity) ==
    IF entityRows[entity].ancestor_id # Null
    THEN EntityFindByPk(entityRows[entity].ancestor_id)
    ELSE Null

\* The ancestor row of an entity row: by ancestor_id, or, if that finds
\* none, by the ancestor the ledger records for the row's path.
AncestorRow(entity) ==
    LET byId == IF entityRows[entity].ancestor_id # Null
                THEN EntityFindByPk(entityRows[entity].ancestor_id)
                ELSE Null
        entityObj == getEntity(extractHash(entityRows[entity].path))
    IN  IF byId # Null THEN byId
        ELSE IF available /\ entityObj.kind = "object"
             THEN EntityFindByPath(entityObj.ancestor)
             ELSE Null

\* getAncestorInfo(entityId): the code and the ancestor row it answers with.
\* Entity rows are never updated, so its reads see one state.
GetAncestorOutcome(entityId) ==
    IF entityId = Null THEN [code |-> "INVALID_REQUEST", entity |-> Null]
    ELSE IF EntityFindByPk(entityId) = Null THEN [code |-> "DATABASE_ERROR", entity |-> Null]
    ELSE IF AncestorRow(EntityFindByPk(entityId)) = Null
         THEN [code |-> "ANCESTOR_NOT_FOUND", entity |-> Null]
         ELSE FetchEntityInfo(AncestorRow(EntityFindByPk(entityId)))

\* (a resolver that writes the ancestor it found through the ledger into
\* the ancestor_id of the row)
GetAncestorInfoRepairing(c) ==
    /\ CanStart(c)
    /\ \E entityId \in 0..(Len(entityRows) + 1) :
          /\ call' = [call EXCEPT ![c] =
                        [Idle EXCEPT !.op = "ancestor", !.pc = "done",
                                     !.ent = entityId,
                                     !.result = GetAncestorOutcome(entityId).code,
                                     !.resEntity = GetAncestorOutcome(entityId).entity]]
          /\ entityRows' = IF /\ GetAncestorOutcome(entityId).code = "SUCCESS"
                              /\ entityRows[entityId].ancestor_id = Null
                           THEN [entityRows EXCEPT ![entityId].ancestor_id =
                                    GetAncestorOutcome(entityId).entity]
                           ELSE entityRows
    /\ UNCHANGED <<ledger, secretRows, loginRows, faults, resets, tokens, store>>

\* GET /api/identity/ancestor/:id
GetAncestorInfo(c) ==
    /\ CanStart(c)
    /\ \E entityId \in 0..(Len(entityRows) + 1) :
          call' = [call EXCEPT ![c] =
                     [Idle EXCEPT !.op = "ancestor", !.pc = "done",
                                  !.ent = entityId,
                                  !.result = GetAncestorOutcome(entityId).code,
                                  !.resEntity = GetAncestorOutcome(entityId).entity]]
    /\ UNCHANGED <<ledger, projection, faults, resets, tokens, store>>

\* ------------------------------------------------- authService.checkSecret

\* (the used flag itself, the negation forgotten)
SecretObjUsedFlag(h) == getSecret(h).kind = "object" /\ getSecret(h).used

\* unused: !secretObj.used (a message has no such property: undefined)
SecretObjUnused(h) == ~(getSecret(h).kind = "object" /\ getSecret(h).used)

\* checkSecret(secretInput): { valid, unused, error: { code } }; code "" is
\* error: null. The function awaits nothing.
CheckSecretOutcome(secretInput) ==
    IF ~secretInput.present \/ normalizeSecretHash(secretInput) = Null
    THEN [valid |-> FALSE, unused |-> FALSE, code |-> "INVALID_REQUEST"]
    ELSE IF ~available
    THEN [valid |-> FALSE, unused |-> FALSE, code |-> "DATABASE_ERROR"]
    ELSE IF SecretIsUsed(normalizeSecretHash(secretInput))
    THEN [valid |-> TRUE, unused |-> FALSE, code |-> ""]
    ELSE IF SecretObjMissing(normalizeSecretHash(secretInput))
    THEN [valid |-> FALSE, unused |-> FALSE, code |-> "INVALID_SECRET"]
    ELSE [valid |-> TRUE, unused |-> SecretObjUnused(normalizeSecretHash(secretInput)),
          code |-> ""]

\* The answer of the controller, as one word.
CheckSecretAnswer(o) ==
    IF ~o.valid THEN o.code
    ELSE IF o.unused THEN "VALID_UNUSED" ELSE "VALID_USED"

\* POST /api/identity/check-secret
CheckSecret(c) ==
    /\ CanStart(c)
    /\ \E secretInput \in SecretInputs :
          call' = [call EXCEPT ![c] =
                     [Idle EXCEPT !.op = "checkSecret", !.pc = "done",
                                  !.noSecret = ~secretInput.present,
                                  !.sec = normalizeSecretHash(secretInput),
                                  !.result = CheckSecretAnswer(CheckSecretOutcome(secretInput))]]
    /\ UNCHANGED <<ledger, projection, faults, resets, tokens, store>>

\* ------------------------------------------------ authController.verifyToken

\* Login.findOne({ where: { entity_id: entityId } })
LoginOfEntity(entityId) == {l \in loginRows : l.entity_id = entityId}

\* GET /api/identity/verify with a token the middleware accepted (signed by
\* this server, not expired): 200 with the entity row and the username of
\* its login row, or 401 with code 40104.
VerifyOutcome(token) ==
    IF token.entityId = Null THEN [code |-> "40104", username |-> ""]
    ELSE IF EntityFindByPk(token.entityId) = Null THEN [code |-> "40104", username |-> ""]
    ELSE IF LoginOfEntity(token.entityId) = {} THEN [code |-> "40104", username |-> ""]
    ELSE [code |-> "OK",
          username |-> (CHOOSE l \in LoginOfEntity(token.entityId) : TRUE).id]

VerifyToken(c) ==
    /\ CanStart(c)
    /\ \E token \in tokens :
          call' = [call EXCEPT ![c] =
                     [Idle EXCEPT !.op = "verify", !.pc = "done",
                                  !.ent = token.entityId,
                                  !.user = VerifyOutcome(token).username,
                                  !.result = VerifyOutcome(token).code]]
    /\ UNCHANGED <<ledger, projection, faults, resets, tokens, store>>

\* --------------------------------------------------------- scripts/reset.js

\* (a reset whose truncateDatabase did nothing: the files go, the rows stay)
WipedFilesOnly ==
    /\ pioneer' = Null
    /\ entities' = <<>>
    /\ secrets' = <<>>
    /\ nextHash' = 1
    /\ UNCHANGED projection

\* deletePathChainFiles and truncateDatabase: no files, and empty tables
\* whose AUTO_INCREMENT starts again at 1. No file and no row is left to
\* name an earlier digest, so the digests are numbered from the start again.
Wiped ==
    /\ pioneer' = Null
    /\ entities' = <<>>
    /\ secrets' = <<>>
    /\ nextHash' = 1
    /\ entityRows' = <<>>
    /\ secretRows' = <<>>
    /\ loginRows' = {}

\* "Restart your server": the wiped stores as the start-up's
\* initializeSystem leaves them when it ran alone.
Restarted ==
    /\ pioneer' = 1
    /\ entities' = (1 :> [ancestor |-> 1])
    /\ secrets' = (2 :> [author |-> 1, user |-> Null, used |-> FALSE])
    /\ nextHash' = 3
    /\ entityRows' = <<[path |-> EntityTag(1), ancestor_id |-> Null]>>
    /\ secretRows' = <<[path |-> SecretTag(2), owner_id |-> 1,
                        used_at |-> UsedAtColumn(FALSE)]>>
    /\ loginRows' = {}

\* A request answered before the reset: what it was is of no account after.
Past == [Idle EXCEPT !.op = "past", !.pc = "done"]

\* node scripts/reset.js, run by the operator while no request is being
\* handled. The tokens the clients hold are not touched.
Reset ==
    /\ resets < MaxResets
    /\ \A c \in Calls : call[c].pc \in {"idle", "done"}
    /\ \/ Wiped
       \/ Restarted
    /\ call' = [c \in Calls |-> IF call[c].op = "idle" THEN Idle ELSE Past]
    /\ resets' = resets + 1
    /\ moments' = <<>>
    /\ UNCHANGED <<faults, tokens, clock, made, available>>

\* ----------------------------------------------------------- specification

Next ==
    \E c \in Calls :
        \/ StartInit(c)
        \/ InitFindPioneer(c)
        \/ InitCreatePioneer(c)
        \/ InitCreateEntity(c)
        \/ InitFindSecret(c)
        \/ InitCreateSecret(c)
        \/ StartRegister(c)
        \/ RegUsernameExists(c)
        \/ RegFindPioneer(c)
        \/ RegMarkAsUsed(c)
        \/ RegCheckSecret(c)
        \/ RegFindAncestor(c)
        \/ RegCreateEntity(c)
        \/ RegTxFails(c)
        \/ RegTxEntityCreate(c)
        \/ RegTxSecretFind(c)
        \/ RegTxSecretUpsert(c)
        \/ RegTxLoginCreate(c)
        \/ RegTxCommit(c)
        \/ RegUseSecret(c)
        \/ Login(c)
        \/ GetAncestorInfo(c)
        \/ CheckSecret(c)
        \/ VerifyToken(c)

Spec == Init /\ [][Next]_vars

\* The requests as they run without the ledger. The steps left out cannot
\* be reached: they follow a createPioneer or a createEntity that returned.
NextNoLedger ==
    \E c \in Calls :
        \/ StartInit(c)
        \/ InitFindPioneer(c)
        \/ InitCreatePioneer(c)
        \/ StartRegister(c)
        \/ RegUsernameExists(c)
        \/ RegFindPioneer(c)
        \/ RegCheckSecret(c)
        \/ RegFbFindPioneer(c)
        \/ RegFbInit(c)
        \/ RegFbTxFails(c)
        \/ RegFbTxEntityCreate(c)
        \/ RegFbTxSecretCreate(c)
        \/ RegFbTxLoginCreate(c)
        \/ RegFbTxCommit(c)
        \/ Login(c)
        \/ GetAncestorInfo(c)
        \/ CheckSecret(c)
        \/ VerifyToken(c)

SpecNoLedger == InitNoLedger /\ [][NextNoLedger]_vars

\* ------------------------------------- register: the check of the mint result

\* Values createEntity could hand back besides what the library returns for
\* the secret: its messages, the text of a thrown error, strings of other
\* shapes, a digest that names no entity, nothing, and a value that is no string.
OtherMintResults ==
    {ErrorString(m) : m \in {MsgSecretUsed, MsgNotFound, MsgUpdater, MsgUnavailable,
                             MsgFailed, MsgUsed64, MsgNonHex64, ""}}
    \cup {Hex63, Hex65, HashNewline, BlankHex63, NoString, NonString, HashString(UnknownHash)}

\* Registrations that found their secret unused and its author's row, on the
\* stores the start-up left: each is about to call createEntity.
InitMint ==
    /\ Bootstrapped
    /\ call \in [Calls -> {[Idle EXCEPT !.op = "register", !.pc = "createEntity",
                                         !.user = u, !.pw = "pw1", !.sec = s,
                                         !.author = secrets[s].author,
                                         !.anc = EntityFindByPath(EntityTag(secrets[s].author))] :
                              u \in Usernames, s \in DOMAIN secrets}]
    /\ faults = 0
    /\ resets = 0
    /\ tokens = {}
    /\ moments = <<>>
    /\ clock = 1
    /\ made = [record |-> Null, address |-> Null, existed |-> FALSE]
    /\ available = TRUE

\* The createEntity step of register with the returned value drawn: the
\* library's own answer (with its effect on the files) or any other value.
RegCreateEntityReturning(c) ==
    /\ At(c, "register", "createEntity")
    /\ \E r \in OtherMintResults \cup {MakeEntityResult(call[c].sec)} :
          /\ IF r = MakeEntityResult(call[c].sec)
             THEN MakeEntityEffect(call[c].sec)
             ELSE UNCHANGED ledger
          /\ call' = [call EXCEPT ![c] = MintCheck(c, r, DOMAIN entities')]
    /\ UNCHANGED <<projection, faults, resets, tokens, store>>

NextMint ==
    \E c \in Calls :
        \/ RegCreateEntityReturning(c)
        \/ RegTxFails(c)
        \/ RegTxEntityCreate(c)
        \/ RegTxSecretFind(c)
        \/ RegTxSecretUpsert(c)
        \/ RegTxLoginCreate(c)
        \/ RegTxCommit(c)
        \/ RegUseSecret(c)

SpecMint == InitMint /\ [][NextMint]_vars

\* ---------------------------------------------- pathchainUtil.createMoment

\* The arguments of createMoment: a datetime or none (then the library takes
\* the current one) and a latitude; lon, x, y, z keep their default 0.
Datetimes == 1..MaxClock
DatetimeInputs == Datetimes \cup {Null}
Coordinates == {0, 1}

\* The decoded JSON representation of the moment.
MomentRecord(datetime, lat) ==
    [datetime |-> datetime, lat |-> lat, lon |-> 0, x |-> 0, y |-> 0, z |-> 0]

\* (a file name that depends on when the file is written)
MomentDigestAtWrite(record) ==
    ((clock' * (MaxClock + 1) + record.datetime) * 2 + record.lat) * 2 + record.lon

\* The SHA-256 digest of the content, as a numbering of the records that
\* gives different records different numbers.
MomentDigest(record) ==
    (record.datetime * 2 + record.lat) * 2 + record.lon

\* checker.checkDir, then the file is written under its name; a file of
\* that name is overwritten.
WriteFile(files, name, content) ==
    [h \in DOMAIN files \cup {name} |-> IF h = name THEN content ELSE files[h]]

CreateMoment ==
    /\ available
    /\ \E datetime \in DatetimeInputs, lat \in Coordinates, now \in clock..MaxClock :
        LET record == MomentRecord(IF datetime = Null THEN now ELSE datetime, lat)
        IN /\ clock' = now
           /\ moments' = WriteFile(moments, MomentDigest(record), record)
           /\ made' = [record |-> record, address |-> MomentDigest(record),
                       existed |-> \E h \in DOMAIN moments : moments[h] = record]
           /\ UNCHANGED <<ledger, projection, call, faults, resets, tokens, available>>

\* The object store alone, written through createMoment.
SpecStore == Init /\ [][CreateMoment]_vars

\* The server together with the operator's reset tool.
NextReset == Next \/ Reset

SpecReset == Init /\ [][NextReset]_vars

\* ------------------------------------------------------------- properties

\* Call c is a register that presents secret digest s.
Presents(c, s) ==
    /\ call[c].op = "register"
    /\ ~call[c].noSecret
    /\ s # Null
    /\ call[c].sec = s

\* createEntity returned a digest to call c.
Minted(c) ==
    /\ call[c].op = "register"
    /\ ~call[c].noSecret
    /\ call[c].hash # Null

\* Call c has returned this code.
Returned(c, code) == call[c].pc = "done" /\ call[c].result = code

\* The step taken is a step of call c.
StepOf(c) == call'[c] # call[c]

\* C1 (P1, single use): once createEntity has minted an entity from a secret,
\* every later createEntity on that secret gets the already-used message,
\* the ledger's entities stay as they are, and register answers USED_SECRET.
C1_SingleUseMint ==
    [][\A c \in Calls :
          (/\ At(c, "register", "createEntity")
           /\ StepOf(c)
           /\ \E d \in Calls : Minted(d) /\ call[d].sec = call[c].sec)
          => /\ MakeEntityResult(call[c].sec) = ErrorString(MsgSecretUsed)
             /\ entities' = entities
             /\ call'[c].pc = "done"
             /\ call'[c].result = "USED_SECRET"]_vars

\* A call was refused by createEntity itself (it had passed the used-check
\* and found its ancestor) on a secret another call had minted from.
C1_Witness ==
    \E c, d \in Calls :
        /\ c # d
        /\ Minted(d)
        /\ Presents(c, call[d].sec)
        /\ call[c].anc # Null
        /\ call[c].hash = Null
        /\ Returned(c, "USED_SECRET")

\* The calls that minted from secret s, and those that succeeded with it.
MintersOf(s) == {c \in Calls : Minted(c) /\ call[c].sec = s}
SuccessesOf(s) == {c \in Calls : Presents(c, s) /\ Returned(c, "SUCCESS")}

\* C2: of the register calls presenting one secret, in any interleaving, at
\* most one succeeds and at most one mints; the ledger holds no entity but
\* the pioneer and those minted, one per secret, and the entity table holds
\* at most one row per minted entity.
C2_OneEntityPerSecret ==
    /\ \A s \in DOMAIN secrets :
          /\ Cardinality(SuccessesOf(s)) <= 1
          /\ Cardinality(MintersOf(s)) <= 1
    /\ \A h \in DOMAIN entities :
          h # pioneer => \E c \in Calls : Minted(c) /\ call[c].hash = h
    /\ \A i, j \in DOMAIN entityRows :
          (entityRows[i].ancestor_id # Null /\ entityRows[i].path = entityRows[j].path)
          => i = j
    /\ \A i \in DOMAIN entityRows :
          entityRows[i].ancestor_id # Null
          => \E c \in Calls : Minted(c) /\ entityRows[i].path = EntityTag(call[c].hash)

\* Two calls with distinct usernames presented the same secret, both passed
\* the used-check, one succeeded and the other was refused.
C2_Witness ==
    \E c, d \in Calls :
        /\ Presents(c, call[d].sec)
        /\ Presents(d, call[c].sec)
        /\ call[c].user # call[d].user
        /\ call[c].anc # Null
        /\ call[d].anc # Null
        /\ Returned(c, "SUCCESS")
        /\ Returned(d, "USED_SECRET")

\* C3 (P4, atomicity): when a statement of the registration transaction
\* fails after the mint, register answers DATABASE_ERROR and the tables hold
\* no entity row and no login row of that attempt, while the ledger's
\* secret stays used.
C3_ProjectionAtomicity ==
    \A c \in Calls :
        (Minted(c) /\ Returned(c, "DATABASE_ERROR"))
        => /\ \A i \in DOMAIN entityRows : entityRows[i].path # EntityTag(call[c].hash)
           /\ \A l \in loginRows : ~(l.id = call[c].user /\ l.secret = call[c].sec)
           /\ secrets[call[c].sec].used

\* C4 (P6, username uniqueness): of the register calls with one username at
\* most one returns success, and table login holds at most one row per
\* username.
C4_UsernameUniqueness ==
    \A u \in Usernames :
        /\ Cardinality({c \in Calls : /\ call[c].op = "register"
                                      /\ call[c].user = u
                                      /\ Returned(c, "SUCCESS")}) <= 1
        /\ Cardinality(LoginFindByPk(u)) <= 1

\* C5 (P3, root uniqueness): however often and however interleaved
\* initializeSystem runs (start-up, POST /init, register without secret),
\* there is one root: one pioneer in the ledger and one entity row without
\* ancestor, and all calls answer with that row.
C5_RootUniqueness ==
    /\ Cardinality({h \in DOMAIN entities : entities[h].ancestor = h}) <= 1
    /\ Cardinality({i \in DOMAIN entityRows : entityRows[i].ancestor_id = Null}) <= 1
    /\ \A c, d \in Calls :
          (call[c].op = "init" /\ call[d].op = "init"
             /\ call[c].pc = "done" /\ call[d].pc = "done")
          => call[c].resEntity = call[d].resEntity

\* The entity table has a root row, and the ledger secret s is there, unused.
RootRowExists == \E i \in DOMAIN entityRows : entityRows[i].ancestor_id = Null
Unused(s) == s \in DOMAIN secrets /\ ~secrets[s].used

\* What holds of every register that succeeded with a secret: its entity row
\* carries the minted entity's tag, the ancestor of the row is a root row
\* carrying the pioneer's tag, the ancestor in the ledger is the pioneer, and
\* the secret is used. And a register that minted and met no database
\* failure has succeeded when it returns.
C6_AfterSuccess ==
    \A c \in Calls :
        /\ (Presents(c, call[c].sec) /\ Returned(c, "SUCCESS"))
           => /\ Minted(c)
              /\ entities[call[c].hash].ancestor = pioneer
              /\ entityRows[call[c].resEntity].path = EntityTag(call[c].hash)
              /\ entityRows[entityRows[call[c].resEntity].ancestor_id].ancestor_id = Null
              /\ entityRows[entityRows[call[c].resEntity].ancestor_id].path = EntityTag(pioneer)
              /\ secrets[call[c].sec].used
        /\ (Minted(c) /\ call[c].pc = "done" /\ faults = 0) => call[c].result = "SUCCESS"

\* A register presenting an unused secret on a bootstrapped system goes
\* from the used-check on to the mint; one presenting a secret that another
\* register already succeeded with goes, with a free username, to the
\* used-check and is answered USED_SECRET there, both stores left as they are.
C6_Step(c) ==
    /\ (/\ call[c].pc \in {"checkSecret", "findAncestor", "createEntity"}
        /\ Unused(call[c].sec)
        /\ RootRowExists)
       => call'[c].pc \in {"findAncestor", "createEntity", "txEntityCreate"}
    /\ (\E d \in Calls : d # c /\ Presents(d, call[c].sec) /\ Returned(d, "SUCCESS"))
       => /\ (call[c].pc = "usernameExists" /\ ~usernameExists(call[c].user))
             => call'[c].pc = "checkSecret"
          /\ call[c].pc = "checkSecret"
             => /\ call'[c].pc = "done"
                /\ call'[c].result = "USED_SECRET"
                /\ ledger' = ledger
                /\ projection' = projection

\* C6 (sequential single use): with the root bootstrapped and its secret S0
\* unused, register(S0, u1, pw) succeeds with an entity whose ancestor is
\* the root; from then on S0 is used and every register(S0, u2, pw2) returns
\* USED_SECRET.
C6_SequentialSingleUse ==
    /\ []C6_AfterSuccess
    /\ [][\A c \in Calls : (Presents(c, call[c].sec) /\ StepOf(c)) => C6_Step(c)]_vars

\* register(S0, u1) succeeded; a register(S0, u2) that arrived later was
\* refused at the used-check.
C6_Witness ==
    \E c, d \in Calls :
        /\ c < d
        /\ Presents(c, call[d].sec)
        /\ Presents(d, call[c].sec)
        /\ Returned(c, "SUCCESS")
        /\ call[d].user # call[c].user
        /\ call[d].anc = Null
        /\ Returned(d, "USED_SECRET")

\* C7: a register without secret (valid, username free) that finds a root
\* row returns INVALID_SECRET, and none of its steps changes the ledger or
\* the tables. The root is looked for twice: by register and by the
\* initializeSystem it calls.
C7_NoSecretRootExists ==
    [][\A c \in Calls :
          (/\ call[c].op = "register"
           /\ call[c].noSecret
           /\ StepOf(c)
           /\ RootRowExists
           /\ call[c].pc \in {"usernameExists", "findPioneer", "initFindPioneer"})
          => /\ ledger' = ledger
             /\ projection' = projection
             /\ IF call[c].pc = "usernameExists"
                THEN \/ call'[c].pc = "findPioneer"
                     \/ /\ usernameExists(call[c].user)
                        /\ call'[c].pc = "done"
                        /\ call'[c].result = "USERNAME_EXISTS"
                ELSE /\ call'[c].pc = "done"
                     /\ call'[c].result = "INVALID_SECRET"]_vars

\* A register without secret was answered INVALID_SECRET on a system with a root.
C7_Witness ==
    \E c \in Calls :
        /\ call[c].op = "register"
        /\ call[c].noSecret
        /\ call[c].user # ""
        /\ RootRowExists
        /\ Returned(c, "INVALID_SECRET")

\* C8: a register presenting a digest the ledger has no secret for returns
\* INVALID_SECRET at the used-check, leaving both stores as they are; such a
\* call never mints and never writes a row.
C8_UnknownSecret ==
    /\ [](\A c \in Calls :
            (Presents(c, call[c].sec) /\ call[c].sec \notin DOMAIN secrets)
            => /\ call[c].hash = Null
               /\ call[c].ent = Null
               /\ call[c].pc \in {"usernameExists", "checkSecret", "done"}
               /\ call[c].pc = "done" => call[c].result \in {"USERNAME_EXISTS", "INVALID_SECRET"})
    /\ [][\A c \in Calls :
            (/\ Presents(c, call[c].sec)
             /\ call[c].sec \notin DOMAIN secrets
             /\ call[c].pc = "checkSecret"
             /\ StepOf(c))
            => /\ call'[c].pc = "done"
               /\ call'[c].result = "INVALID_SECRET"
               /\ ledger' = ledger
               /\ projection' = projection]_vars

\* On a bootstrapped system, whose ledger holds an unused secret, a register
\* with an unknown digest was answered INVALID_SECRET.
C8_Witness ==
    \E c \in Calls :
        /\ Presents(c, UnknownHash)
        /\ Returned(c, "INVALID_SECRET")
        /\ \E s \in DOMAIN secrets : ~secrets[s].used

\* C9: every register that succeeded, with a secret or as the bootstrap,
\* left a login row, so that a login with the same username and password
\* succeeds and answers with the entity the register answered with.
C9_LoginAfterRegister ==
    \A c \in Calls :
        (call[c].op = "register" /\ Returned(c, "SUCCESS"))
        => LoginOutcome(call[c].user, call[c].pw) =
              [code |-> "SUCCESS", entity |-> call[c].resEntity]

\* C10 (bootstrap branch): a register without secret that succeeded created
\* the root, answered with the root's row, and left the pioneer's secret
\* used in the ledger, where the used-check of a later register reads it.
C10_BootstrapConsumesSecret ==
    \A c \in Calls :
        (call[c].op = "register" /\ call[c].noSecret /\ Returned(c, "SUCCESS"))
        => /\ pioneer # Null
           /\ entityRows[call[c].resEntity].ancestor_id = Null
           /\ entityRows[call[c].resEntity].path = EntityTag(pioneer)
           /\ \A s \in DOMAIN secrets : secrets[s].author = pioneer => secrets[s].used

\* C11 (P2, ancestor integrity): for every entity row that is not a root
\* row, getAncestorInfo answers with success, and the row it answers with
\* carries the tag of an entity of the ledger.
C11_AncestorIntegrity ==
    \A i \in DOMAIN entityRows :
        entityRows[i].ancestor_id # Null
        => /\ GetAncestorOutcome(i).code = "SUCCESS"
           /\ GetAncestorOutcome(i).entity \in DOMAIN entityRows
           /\ extractHash(entityRows[GetAncestorOutcome(i).entity].path) \in DOMAIN entities

\* getAncestorInfo was called for a registered entity and answered with its
\* ancestor row.
C11_Witness ==
    \E c \in Calls :
        /\ call[c].op = "ancestor"
        /\ call[c].ent \in DOMAIN entityRows
        /\ entityRows[call[c].ent].ancestor_id # Null
        /\ Returned(c, "SUCCESS")
        /\ call[c].resEntity = entityRows[call[c].ent].ancestor_id

\* C12: checkSecret changes neither the ledger nor the tables, whatever
\* its input and answer; for a used secret it answers valid and not unused,
\* for an unused secret of the ledger valid and unused, and for a digest the
\* ledger has no secret for an error (INVALID_SECRET).
C12_CheckSecretReadOnly ==
    [][\A c \in Calls :
          (StepOf(c) /\ call'[c].op = "checkSecret")
          => /\ ledger' = ledger
             /\ projection' = projection
             /\ call'[c].pc = "done"
             /\ (call'[c].sec \in DOMAIN secrets /\ secrets[call'[c].sec].used)
                => call'[c].result = "VALID_USED"
             /\ (call'[c].sec \in DOMAIN secrets /\ ~secrets[call'[c].sec].used)
                => call'[c].result = "VALID_UNUSED"
             /\ (call'[c].sec # Null /\ call'[c].sec \notin DOMAIN secrets)
                => call'[c].result = "INVALID_SECRET"]_vars

\* checkSecret has answered valid and not unused for a secret that a
\* register had consumed.
C12_Witness ==
    \E c, d \in Calls :
        /\ Minted(d)
        /\ call[c].op = "checkSecret"
        /\ call[c].sec = call[d].sec
        /\ call[c].result = "VALID_USED"

\* C13 (secret state machine): a secret of the ledger that is used has a
\* user, which is an entity of the ledger; no step makes a used secret
\* unused or changes the record of a used secret (the useSecret after the
\* commit leaves it as createEntity wrote it); a step that makes a secret
\* used sets its user.
C13_SecretStateMachine ==
    /\ [](\A s \in DOMAIN secrets :
            secrets[s].used => secrets[s].user \in DOMAIN entities)
    /\ [][\A s \in DOMAIN secrets \cap DOMAIN secrets' :
            /\ secrets[s].used => secrets'[s] = secrets[s]
            /\ (~secrets[s].used /\ secrets'[s].used) => secrets'[s].user # Null]_vars

\* A register has run to its end, useSecret included, and the secret is
\* used by the entity that register minted.
C13_Witness ==
    \E c \in Calls :
        /\ Minted(c)
        /\ Returned(c, "SUCCESS")
        /\ call[c].sec \in DOMAIN secrets
        /\ secrets[call[c].sec].used
        /\ secrets[call[c].sec].user = call[c].hash

\* C14 (consistency of secret usage): every row of table secret whose
\* used_at is set carries the tag of a secret of the ledger that is used.
C14_SecretRowMirrorsLedger ==
    \A i \in DOMAIN secretRows :
        secretRows[i].used_at
        => /\ extractHash(secretRows[i].path) \in DOMAIN secrets
           /\ secrets[extractHash(secretRows[i].path)].used

C16_OldTokensRejected ==
    \A token \in tokens :
        token.iat < resets => VerifyOutcome(token).code = "40104"

FailFastCodes ==
    {"INVALID_REQUEST", "USERNAME_EXISTS", "INVALID_SECRET", "USED_SECRET", "ANCESTOR_NOT_FOUND"}

\* The ledger's entities and secrets, and the rows.
Stored == <<pioneer, entities, secrets, entityRows, secretRows, loginRows>>

\* C18 (fail fast): a register that returns INVALID_REQUEST, USERNAME_EXISTS,
\* INVALID_SECRET, USED_SECRET or ANCESTOR_NOT_FOUND has left the ledger's
\* entities and secrets and all rows as they were: it returns such a code
\* only while it holds no digest of a pioneer or entity it created, and
\* every step it takes until it holds one changes nothing stored.
C18_FailFastNoSideEffects ==
    /\ [](\A c \in Calls :
            (call[c].op = "register" /\ call[c].pc = "done"
                /\ call[c].result \in FailFastCodes) => call[c].hash = Null)
    /\ [][\A c \in Calls :
            (StepOf(c) /\ call'[c].op = "register") =>
                /\ call'[c].hash = Null => Stored' = Stored
                /\ call[c].hash # Null => call'[c].hash # Null]_vars

\* A register has answered ANCESTOR_NOT_FOUND for an unused secret of the
\* ledger whose author has no row yet.
C18_Witness ==
    \E c \in Calls :
        /\ Presents(c, call[c].sec)
        /\ call[c].sec \in DOMAIN secrets
        /\ ~secrets[call[c].sec].used
        /\ Returned(c, "ANCESTOR_NOT_FOUND")
        /\ call[c].hash = Null

\* C19 (order of the dual write, register with a secret): the transaction
\* is opened by the step in which createEntity minted the entity and marked
\* the secret, and that step writes no row; while the transaction is open
\* the ledger is not written; useSecret is reached only from a commit that
\* went through, with the three rows written; and a transaction that was
\* rolled back ends the call with DATABASE_ERROR, useSecret not called.
C19_DualWriteOrder ==
    [][\A c \in Calls :
        (StepOf(c) /\ call'[c].op = "register" /\ ~call'[c].noSecret) =>
            /\ (call'[c].pc \in TxLabels /\ call[c].pc \notin TxLabels) =>
                    /\ call[c].pc = "createEntity"
                    /\ call'[c].pc = "txEntityCreate"
                    /\ call'[c].hash \in DOMAIN entities' \ DOMAIN entities
                    /\ ~secrets[call[c].sec].used
                    /\ secrets'[call[c].sec].used
                    /\ secrets'[call[c].sec].user = call'[c].hash
                    /\ projection' = projection
            /\ ledger' # ledger => call[c].pc = "createEntity"
            /\ call'[c].pc = "useSecret" =>
                    /\ call[c].pc = "txCommit"
                    /\ faults' = faults
                    /\ entityRows[call[c].ent].path = EntityTag(call[c].hash)
                    /\ secretRows[call[c].srow].used_at
                    /\ \E l \in loginRows : l.id = call[c].user /\ l.entity_id = call[c].ent
            /\ (call[c].pc \in TxLabels /\ call'[c].pc \notin TxLabels \cup {"useSecret"}) =>
                    /\ call'[c].pc = "done"
                    /\ call'[c].result = "DATABASE_ERROR"]_vars

\* The transaction of a register has committed and useSecret is about to be
\* called; the secret was marked by the mint.
C19_Witness ==
    \E c \in Calls :
        /\ At(c, "register", "useSecret")
        /\ secrets[call[c].sec].user = call[c].hash
        /\ \E l \in loginRows : l.id = call[c].user /\ l.entity_id = call[c].ent

\* C20: a useSecret that throws after the commit is swallowed: register
\* still answers success and issues the token, and the rows the transaction
\* wrote (entity, secret, login) stay as committed.
C20_UseSecretFailureSwallowed ==
    [][\A c \in Calls :
        (call[c].pc = "useSecret" /\ StepOf(c) /\ faults' # faults) =>
            /\ call'[c].pc = "done"
            /\ call'[c].result = "SUCCESS"
            /\ call'[c].resEntity = call[c].ent
            /\ GenerateToken(call'[c]) \in tokens'
            /\ projection' = projection
            /\ entityRows'[call[c].ent].path = EntityTag(call[c].hash)
            /\ secretRows'[call[c].srow].path = SecretTag(call[c].sec)
            /\ \E l \in loginRows' : l.id = call[c].user /\ l.entity_id = call[c].ent]_vars

\* A register whose useSecret threw has answered success; its login row is
\* in the table.
C20_Witness ==
    \E c \in Calls :
        /\ Minted(c)
        /\ Returned(c, "SUCCESS")
        /\ faults > 0
        /\ \E l \in loginRows : l.id = call[c].user /\ l.entity_id = call[c].resEntity

\* C21: no register path fabricates or substitutes an ancestor: a register
\* with a secret that went past the ancestor lookup presented a secret of
\* the ledger and holds, as ancestor, the row that carries the ledger
\* address of that secret's author; and a register that answered
\* ANCESTOR_NOT_FOUND minted nothing.
C21_AncestorNeverSubstituted ==
    \A c \in Calls :
        /\ (call[c].op = "register" /\ ~call[c].noSecret /\ call[c].anc # Null) =>
                /\ call[c].sec \in DOMAIN secrets
                /\ call[c].anc \in DOMAIN entityRows
                /\ entityRows[call[c].anc].path = EntityTag(secrets[call[c].sec].author)
        /\ (call[c].op = "register" /\ Returned(c, "ANCESTOR_NOT_FOUND")) =>
                call[c].hash = Null

\* The whole string is hex digits, and there are 64 of them.
AllHex(r) == r.kind \in {"hex64", "hex63", "hex65"}
IsHexString64(r) == AllHex(r) /\ StringLength(r) = HashLength

\* C22 (strict shape check of the mint result): the value createEntity hands
\* back passes register's check if and only if it is a string of 64 hex
\* digits; with any other value, one that merely holds an error word among
\* them, the call ends at once with an error and has written no row.
C22_StrictShapeCheck ==
    /\ [](\A c \in Calls :
            (call[c].op = "register" /\ call[c].mint # NoString /\ ~IsHexString64(call[c].mint)) =>
                /\ call[c].pc = "done"
                /\ call[c].result # "SUCCESS"
                /\ call[c].ent = Null)
    /\ [][\A c \in Calls :
            (At(c, "register", "createEntity") /\ StepOf(c)) =>
                /\ call'[c].mintOk <=> IsHexString64(call'[c].mint)
                /\ ~call'[c].mintOk => /\ call'[c].pc = "done"
                                       /\ call'[c].result # "SUCCESS"
                                       /\ UNCHANGED projection]_vars

\* One registration got a 64-character string holding "used" and was refused;
\* another got a digest and succeeded.
C22_Witness ==
    \E c, d \in Calls :
        /\ call[c].mint = ErrorString(MsgUsed64)
        /\ call[c].pc = "done" /\ ~call[c].mintOk
        /\ call[d].mintOk /\ Returned(d, "SUCCESS")

\* The text of a failed mint speaks of an earlier use.
IndicatesPriorUse(r) == Includes(r, "used") \/ Includes(r, "already")

\* C23 (mapping of a mint failure): when the value createEntity hands back is
\* refused, register ends with USED_SECRET if the text indicates prior use,
\* and with ENTITY_RETRIEVAL_FAILED otherwise: never with success and never
\* with another code.
C23_MintFailureMapping ==
    [][\A c \in Calls :
        (/\ At(c, "register", "createEntity")
         /\ StepOf(c)
         /\ ~call'[c].mintOk
         /\ call'[c].mint.kind # "object") =>
            /\ call'[c].pc = "done"
            /\ call'[c].result = IF IndicatesPriorUse(call'[c].mint)
                                  THEN "USED_SECRET"
                                  ELSE "ENTITY_RETRIEVAL_FAILED"]_vars

\* Call c is a register that minted an entity and then failed.
Orphaned(c) ==
    /\ call[c].op = "register"
    /\ call[c].pc = "done"
    /\ call[c].hash # Null
    /\ call[c].result # "SUCCESS"

\* C24 (orphaned consumed secret): once a register has minted an entity and
\* then failed, its secret stays used, no other register presenting that
\* secret succeeds (it is answered USED_SECRET once its username is free),
\* and the table entity has no row for the minted entity.
C24_OrphanedSecret ==
    \A c \in Calls :
        Orphaned(c) =>
            /\ secrets[call[c].sec].used
            /\ \A d \in Calls \ {c} :
                  (Presents(d, call[c].sec) /\ call[d].pc = "done") =>
                      call[d].result \in {"USED_SECRET", "USERNAME_EXISTS"}
            /\ \A i \in DOMAIN entityRows : entityRows[i].path # EntityTag(call[c].hash)

\* Call c presents secret s, has passed the isSecretUsed pre-check and has
\* not called createEntity yet.
PastPreCheck(c, s) ==
    /\ Presents(c, s)
    /\ call[c].pc \in {"findAncestor", "createEntity"}

\* C25 (check-then-mint race): two registers presenting the same secret can
\* both be past the pre-check before either mints. Nothing then holds either
\* back: the one that calls createEntity first mints and marks the secret
\* while the other stays where it is, and the other's createEntity is
\* refused with USED_SECRET, the ledger unchanged.
C25_CheckThenMintRace ==
    [][\A c \in Calls : \A s \in DOMAIN secrets :
        (PastPreCheck(c, s) /\ call[c].pc = "createEntity" /\ StepOf(c)) =>
            IF secrets[s].used
            THEN /\ call'[c].pc = "done"
                 /\ call'[c].result = "USED_SECRET"
                 /\ UNCHANGED ledger
            ELSE /\ call'[c].hash # Null
                 /\ call'[c].hash \in DOMAIN entities' \ DOMAIN entities
                 /\ secrets'[s].used
                 /\ \A d \in Calls \ {c} :
                       PastPreCheck(d, s) => call'[d] = call[d]]_vars

\* Both calls are about to call createEntity on the same secret, which the
\* ledger still holds unused.
C25_Witness ==
    \E c, d \in Calls : \E s \in DOMAIN secrets :
        /\ c # d
        /\ PastPreCheck(c, s) /\ call[c].pc = "createEntity"
        /\ PastPreCheck(d, s) /\ call[d].pc = "createEntity"
        /\ ~secrets[s].used

\* The step is a getAncestorInfo of call c.
AncestorStep(c) == CanStart(c) /\ call'[c].op = "ancestor"

\* The rows whose path is the ancestor the ledger records for row e, if the
\* ledger can be asked and holds the entity of that row.
LedgerAncestorRows(e) ==
    IF available /\ entityRows[e].path[2] \in DOMAIN entities
    THEN {i \in DOMAIN entityRows :
            entityRows[i].path = EntityTag(entities[entityRows[e].path[2]].ancestor)}
    ELSE {}

\* C26 (path selection of getAncestorInfo): asked for an existing row, it
\* answers with the row that ancestor_id names whenever that row exists,
\* whatever the ledger records; otherwise with a row whose path is the
\* ancestor the ledger records for the entity; and with ANCESTOR_NOT_FOUND
\* when neither gives a row.
C26_AncestorPathSelection ==
    [][\A c \in Calls :
        (AncestorStep(c) /\ call'[c].ent \in DOMAIN entityRows) =>
            LET row == entityRows[call'[c].ent]
            IN  IF row.ancestor_id # Null /\ row.ancestor_id \in DOMAIN entityRows
                THEN /\ call'[c].result = "SUCCESS"
                     /\ call'[c].resEntity = row.ancestor_id
                ELSE IF LedgerAncestorRows(call'[c].ent) # {}
                THEN /\ call'[c].result = "SUCCESS"
                     /\ call'[c].resEntity \in LedgerAncestorRows(call'[c].ent)
                ELSE /\ call'[c].result = "ANCESTOR_NOT_FOUND"
                     /\ call'[c].resEntity = Null]_vars

\* A getAncestorInfo answered through the ancestor_id of a registered entity.
C26_Witness ==
    \E c \in Calls :
        /\ call[c].op = "ancestor"
        /\ call[c].result = "SUCCESS"
        /\ call[c].ent \in DOMAIN entityRows
        /\ entityRows[call[c].ent].ancestor_id = call[c].resEntity

\* C27 (getAncestorInfo never fabricates): whatever it is asked and whatever
\* it answers, a getAncestorInfo leaves the ledger's files and the three
\* tables as they were, and the ancestor of a successful answer is a row the
\* table entity held before the call; any other answer names no row.
C27_ResolverNeverFabricates ==
    [][\A c \in Calls :
        AncestorStep(c) =>
            /\ UNCHANGED <<ledger, projection, moments>>
            /\ call'[c].result = "SUCCESS" => call'[c].resEntity \in DOMAIN entityRows
            /\ call'[c].result # "SUCCESS" => call'[c].resEntity = Null]_vars

\* A getAncestorInfo that found no row through ancestor_id and answered with
\* the row of the ancestor the ledger records.
C27_Witness ==
    \E c \in Calls :
        /\ call[c].op = "ancestor"
        /\ call[c].result = "SUCCESS"
        /\ call[c].ent \in DOMAIN entityRows
        /\ entityRows[call[c].ent].ancestor_id = Null
        /\ call[c].resEntity \in DOMAIN entityRows

\* C28 (unique root row): in every reachable state the table entity has at
\* most one row without ancestor, so that Entity.findPioneer answers with
\* the only such row or with none.
C28_UniqueRootRow ==
    /\ \A i, j \in DOMAIN entityRows :
          (entityRows[i].ancestor_id = Null /\ entityRows[j].ancestor_id = Null) => i = j
    /\ findPioneer # Null =>
          \A i \in DOMAIN entityRows : entityRows[i].ancestor_id = Null => i = findPioneer

\* C29 (referential integrity of the tables): in every reachable state the
\* ancestor_id of every entity row that has one, the owner_id of every
\* secret row and the entity_id of every login row is the id of a row of
\* table entity.
C29_ReferentialIntegrity ==
    /\ \A i \in DOMAIN entityRows :
          entityRows[i].ancestor_id # Null => entityRows[i].ancestor_id \in DOMAIN entityRows
    /\ \A i \in DOMAIN secretRows : secretRows[i].owner_id \in DOMAIN entityRows
    /\ \A l \in loginRows : l.entity_id \in DOMAIN entityRows

\* A registration is through: the tables hold an entity row with an
\* ancestor, a secret row and a login row.
C29_Witness ==
    /\ \E i \in DOMAIN entityRows : entityRows[i].ancestor_id # Null
    /\ secretRows # <<>>
    /\ \E l \in loginRows : l.entity_id \in DOMAIN entityRows
                              /\ entityRows[l.entity_id].ancestor_id # Null

\* C30 (entity paths are unique): in every reachable state no two rows of
\* table entity carry the same path.
C30_EntityPathsUnique ==
    \A i, j \in DOMAIN entityRows :
        entityRows[i].path = entityRows[j].path => i = j

\* A registration has consumed the secret of row i: a register presenting
\* it succeeded, or a register without secret marked the row.
ConsumedByRegistration(i) ==
    \E c \in Calls :
        /\ call[c].op = "register"
        /\ Returned(c, "SUCCESS")
        /\ \/ ~call[c].noSecret /\ SecretTag(call[c].sec) = secretRows[i].path
           \/ call[c].noSecret /\ call[c].srow = i

\* No register has got as far as the secret of row i.
Untouched(i) ==
    /\ extractHash(secretRows[i].path) \in DOMAIN secrets
    /\ ~secrets[extractHash(secretRows[i].path)].used
    /\ \A c \in Calls : call[c].op = "register" => call[c].srow # i

\* C31 (the root's secret is recorded unused): the row of the pioneer's
\* automatic secret, owned by a root row, has no used_at as long as no
\* registration has touched the secret, and Secret.findUnusedByOwner(root)
\* then returns it; once a registration has consumed the secret the row is
\* no longer returned.
C31_RootSecretRecordedUnused ==
    \A i \in DOMAIN secretRows :
        (/\ secretRows[i].owner_id \in DOMAIN entityRows
         /\ entityRows[secretRows[i].owner_id].ancestor_id = Null) =>
            /\ Untouched(i) => /\ ~secretRows[i].used_at
                               /\ i \in findUnusedByOwner(secretRows[i].owner_id)
            /\ ConsumedByRegistration(i) => i \notin findUnusedByOwner(secretRows[i].owner_id)

\* Call c is a register that supplied a secret.
WithSecret(c) == call[c].op = "register" /\ ~call[c].noSecret

\* C32 (success is gated by the ledger): a register that supplied a secret
\* and succeeded presented a secret of the ledger and got, in that call, the
\* entity the ledger minted from it; where the library is not loaded, a
\* register with a secret inserts no entity row, no secret row and no login
\* row; and no secret string has two successful registrations.
C32_SuccessGatedByLedger ==
    /\ \A c \in Calls :
          (WithSecret(c) /\ Returned(c, "SUCCESS")) =>
              /\ call[c].sec \in DOMAIN secrets
              /\ call[c].mintOk
              /\ call[c].hash \in DOMAIN entities
              /\ secrets[call[c].sec].user = call[c].hash
    /\ ~available =>
          \A c \in Calls :
              WithSecret(c) =>
                  /\ call[c].ent = Null
                  /\ call[c].srow = Null
                  /\ \A l \in loginRows : ~(l.id = call[c].user /\ l.secret = call[c].sec)
    /\ \A c, d \in Calls :
          (/\ WithSecret(c) /\ Returned(c, "SUCCESS")
           /\ WithSecret(d) /\ Returned(d, "SUCCESS")
           /\ call[c].sec = call[d].sec) => c = d

\* C33 (the tables mirror the ledger's lineage): in every reachable state,
\* for every entity row with an ancestor_id, the path of the row is the tag
\* of an entity of the ledger, and the ancestor the ledger records for that
\* entity is the path of the row that ancestor_id names.
C33_ProjectionMirrorsLineage ==
    \A i \in DOMAIN entityRows :
        entityRows[i].ancestor_id # Null =>
            /\ extractHash(entityRows[i].path) \in DOMAIN entities
            /\ entityRows[i].ancestor_id \in DOMAIN entityRows
            /\ EntityTag(entities[extractHash(entityRows[i].path)].ancestor) =
                   entityRows[entityRows[i].ancestor_id].path

====
